---- MODULE Spec2Model ----
(***************************************************************************)
(* Model of src/models/AE.py (class Autoencoder) and src/models/WGANGP.py  *)
(* (class WGANGP).  The networks are modelled as the sequence of framework *)
(* layers the builders create, in creation order; tensors, losses and      *)
(* optimisers are named, not computed.  Two specifications:                *)
(*   SpecModels - construction, save and reload of either class, and the   *)
(*                single-batch methods train_critic / train_generator;     *)
(*   Spec       - the WGANGP.train loop of a constructed WGANGP object,    *)
(*                one step per call the loop body makes.                   *)
(* Floating-point configuration values (momenta, rates) are opaque to the  *)
(* code modelled here (it only tests their truthiness), so they are        *)
(* written as integers; 0 stands for None / 0.0.                           *)
(***************************************************************************)
EXTENDS Integers, Sequences, FiniteSets, TLC

\* ------------------------------------------------------------------ bounds
MaxLayers == 2         \* longest layer list drawn for a configuration
MaxEpoch == 101        \* train is not called beyond this value of self.epoch
MaxEpochsArg == 2      \* largest `epochs` argument of one train call
MaxNCritic == 6        \* largest `n_critic` argument of one train call
MaxPrintEvery == 2     \* largest `print_every_n_batches` argument

\* ------------------------------------------------------- program constants
FirstEpochPeriod == 100     \* WGANGP.train: `epoch % 100 == 0`
FirstEpochCriticLoops == 5  \* WGANGP.train: `critic_loops = 5`

VARIABLES
    cls,            \* class of the object: "Autoencoder" or "WGANGP"
    args,           \* positional arguments given to the constructor
    status,         \* "new" (not yet constructed), "built", "raised"
    error,          \* message of the exception the last operation raised, "" if none
    self,           \* attributes of the object set by __init__ (<<>> before)
    encoder,        \* Autoencoder.encoder: layers in creation order
    decoder,        \* Autoencoder.decoder: layers in creation order
    critic,         \* WGANGP.critic: layers in creation order
    generator,      \* WGANGP.generator: layers in creation order
    trainable,      \* trainable flags of critic and generator (model and layers)
    critic_model,   \* WGANGP.critic_model as compiled
    model,          \* WGANGP.model as compiled
    params_pkl,     \* contents of <folder>/params.pkl (<<>> = not written)
    reloaded,       \* object constructed from params_pkl ([status |-> "new"] before)
    batch,          \* last train_on_batch call: model trained and targets
    \* ---- WGANGP.train
    self_epoch,     \* self.epoch
    pc,             \* position in train: "idle" = no call in progress
    epoch,          \* loop variable `epoch`
    it,             \* next value of range(self.epoch, self.epoch + epochs)
    start,          \* self.epoch when train was called
    stop,           \* self.epoch + epochs when train was called
    n_critic,       \* argument n_critic
    print_every_n_batches, \* argument print_every_n_batches
    critic_loops,   \* local critic_loops
    d_loss,         \* local d_loss: "unbound" or "bound"
    raised,         \* exception that ended the last train call, "" if none
    critics,        \* history: train_critic calls in the current epoch
    gens,           \* history: train_generator calls in the current epoch
    gensSinceCritic,\* history: generator updates since the last critic update (capped at 2)
    ckpt,           \* history: checkpoint operations run in the current epoch
    sampleNo,       \* number in images/sample_%d.png of the current epoch (-1 = none)
    weightsNo       \* number in weights/weights-%d.h5 of the current epoch (-1 = none)

objVars == <<cls, args, status, error, self, encoder, decoder, critic, generator,
             trainable, critic_model, model, params_pkl, reloaded>>
trainVars == <<self_epoch, pc, epoch, it, start, stop, n_critic, print_every_n_batches,
               critic_loops, d_loss, raised, critics, gens, gensSinceCritic, ckpt,
               sampleNo, weightsNo>>
vars == <<objVars, batch, trainVars>>

\* ------------------------------------------------------------------ layers
\* A framework layer: its class, the index in its name (-1 when the name has
\* none), its strides (0 when it has none) and its activation function ("").
Layer(op, i, strides, fn) == [op |-> op, i |-> i, strides |-> strides, fn |-> fn]

Opt(cond, layer) == IF cond THEN <<layer>> ELSE <<>>

\* A list argument of length n whose elements differ from every other argument's.
ListOf(base, n) == [j \in 1..n |-> base + j]

NotSameLength(a, b, c) == ~(Len(a) = Len(b) /\ Len(b) = Len(c))

\* ================================================================ WGANGP
WGANGP__init__attrs(a) ==
    [ name |-> "gan",
      input_dim |-> a[1],
      critic_conv_filters |-> a[2],
      critic_conv_kernel_size |-> a[3],
      critic_conv_strides |-> a[4],
      critic_batch_norm_momentum |-> a[5],
      critic_activation |-> a[6],
      critic_dropout_rate |-> a[7],
      critic_learning_rate |-> a[8],
      generator_initial_dense_layer_size |-> a[9],
      generator_upsample |-> a[10],
      generator_conv_filters |-> a[11],
      generator_conv_kernel_size |-> a[12],
      generator_conv_strides |-> a[13],
      generator_batch_norm_momentum |-> a[14],
      generator_activation |-> a[15],
      generator_dropout_rate |-> a[16],
      generator_learning_rate |-> a[17],
      optimiser |-> a[18],
      z_dim |-> a[20],
      n_layers_critic |-> Len(a[2]),
      n_layers_generator |-> Len(a[11]),
      grad_weight |-> a[19],
      batch_size |-> a[21] ]

\* The attributes that hold constructor parameters.
WGANGPConfigAttrs ==
    { "input_dim", "critic_conv_filters", "critic_conv_kernel_size",
      "critic_conv_strides", "critic_batch_norm_momentum", "critic_activation",
      "critic_dropout_rate", "critic_learning_rate",
      "generator_initial_dense_layer_size", "generator_upsample",
      "generator_conv_filters", "generator_conv_kernel_size",
      "generator_conv_strides", "generator_batch_norm_momentum",
      "generator_activation", "generator_dropout_rate", "generator_learning_rate",
      "optimiser", "grad_weight", "z_dim", "batch_size" }

get_activation(activation) ==
    IF activation = "leaky_relu"
    THEN Layer("LeakyReLU", -1, 0, "")
    ELSE Layer("Activation", -1, 0, activation)

RECURSIVE CriticLoop(_, _, _)
CriticLoop(s, i, x) ==
    IF i >= s.n_layers_critic THEN x
    ELSE CriticLoop(s, i + 1,
            x \o <<Layer("Conv2D", i, s.critic_conv_strides[i + 1], "")>>
              \o Opt(s.critic_batch_norm_momentum # 0 /\ i > 0,
                     Layer("BatchNormalization", -1, 0, ""))
              \o <<get_activation(s.critic_activation)>>
              \o Opt(s.critic_dropout_rate # 0, Layer("Dropout", -1, 0, "")))

_build_critic(s) ==
    CriticLoop(s, 0, <<Layer("Input", -1, 0, "")>>)
        \o <<Layer("Flatten", -1, 0, ""), Layer("Dense", -1, 0, "")>>

\* The layers one pass of the generator loop adds after the convolution.
GeneratorTail(s, i) ==
    IF i < s.n_layers_generator - 1
    THEN Opt(s.generator_batch_norm_momentum # 0,
             Layer("BatchNormalization", -1, 0, ""))
            \o <<get_activation(s.generator_activation)>>
    ELSE <<Layer("Activation", -1, 0, "tanh")>>

RECURSIVE GeneratorLoop(_, _, _)
GeneratorLoop(s, i, x) ==
    IF i >= s.n_layers_generator THEN x
    ELSE GeneratorLoop(s, i + 1,
            x \o (IF s.generator_upsample[i + 1] = 2
                  THEN <<Layer("UpSampling2D", -1, 0, ""),
                         Layer("Conv2D", i, 1, "")>>
                  ELSE <<Layer("Conv2DTranspose", i, s.generator_conv_strides[i + 1], "")>>)
              \o GeneratorTail(s, i))

_build_generator(s) ==
    GeneratorLoop(s, 0,
        <<Layer("Input", -1, 0, ""), Layer("Dense", -1, 0, "")>>
          \o Opt(s.generator_batch_norm_momentum # 0,
                 Layer("BatchNormalization", -1, 0, ""))
          \o <<get_activation(s.generator_activation), Layer("Reshape", -1, 0, "")>>
          \o Opt(s.generator_dropout_rate # 0, Layer("Dropout", -1, 0, "")))

\* Trainable flags of a freshly built model: the framework's default is True.
NewFlags(layers) == [m |-> TRUE, layers |-> [j \in DOMAIN layers |-> TRUE]]

\* Faulty variant: only the model's own flag is set, its layers keep theirs.
set_trainableModelOnly(flags, val) == [m |-> val, layers |-> flags.layers]

set_trainable(flags, val) ==
    [m |-> val, layers |-> [j \in DOMAIN flags.layers |-> val]]

\* The output tensors of the critic training model, in the order given to Model(...).
\* Faulty variant: the real and the generated score change places.
CriticModelOutputsSwapped == <<"critic(fake_img)", "critic(real_img)", "critic(interpolated_img)">>

CriticModelOutputs == <<"critic(real_img)", "critic(fake_img)", "critic(interpolated_img)">>

\* _build_adversarial: the two compiled training models, each with the
\* trainable flags in force when it is compiled, and the flags on return.
_build_adversarial(s, flags0) ==
    LET f1 == [flags0 EXCEPT !.generator = set_trainable(@, FALSE)]
        cm == [ inputs |-> <<"real_img", "z_disc">>,
                outputs |-> CriticModelOutputs,
                loss |-> <<"wasserstein", "wasserstein", "gradient_penalty">>,
                loss_weights |-> <<1, 1, s.grad_weight>>,
                learning_rate |-> s.critic_learning_rate,
                trainable |-> f1 ]
        f2 == [f1 EXCEPT !.critic = set_trainable(@, FALSE)]
        f3 == [f2 EXCEPT !.generator = set_trainable(@, TRUE)]
        gm == [ inputs |-> <<"model_input">>,
                outputs |-> <<"critic(generator(model_input))">>,
                loss |-> <<"wasserstein">>,
                loss_weights |-> <<1>>,
                learning_rate |-> s.generator_learning_rate,
                trainable |-> f3 ]
        f4 == [f3 EXCEPT !.critic = set_trainable(@, TRUE)]
    IN  [critic_model |-> cm, model |-> gm, trainable |-> f4]

\* WGANGP(*a): the constructed object.
WGANGPConstruct(a) ==
    LET s == WGANGP__init__attrs(a)
        c == _build_critic(s)
        g == _build_generator(s)
        adv == _build_adversarial(s, [critic |-> NewFlags(c), generator |-> NewFlags(g)])
    IN  [ status |-> "built", error |-> "", self |-> s,
          encoder |-> <<>>, decoder |-> <<>>, critic |-> c, generator |-> g,
          trainable |-> adv.trainable, critic_model |-> adv.critic_model,
          model |-> adv.model ]

\* Faulty variant: z_dim and grad_weight in the order __init__ assigns them,
\* not in the order of its parameters.
WGANGPSaveListAttrOrder(s) ==
    << s.input_dim, s.critic_conv_filters, s.critic_conv_kernel_size,
       s.critic_conv_strides, s.critic_batch_norm_momentum, s.critic_activation,
       s.critic_dropout_rate, s.critic_learning_rate,
       s.generator_initial_dense_layer_size, s.generator_upsample,
       s.generator_conv_filters, s.generator_conv_kernel_size,
       s.generator_conv_strides, s.generator_batch_norm_momentum,
       s.generator_activation, s.generator_dropout_rate, s.generator_learning_rate,
       s.optimiser, s.z_dim, s.grad_weight, s.batch_size >>

\* The list WGANGP.save pickles into params.pkl.
WGANGPSaveList(s) ==
    << s.input_dim, s.critic_conv_filters, s.critic_conv_kernel_size,
       s.critic_conv_strides, s.critic_batch_norm_momentum, s.critic_activation,
       s.critic_dropout_rate, s.critic_learning_rate,
       s.generator_initial_dense_layer_size, s.generator_upsample,
       s.generator_conv_filters, s.generator_conv_kernel_size,
       s.generator_conv_strides, s.generator_batch_norm_momentum,
       s.generator_activation, s.generator_dropout_rate, s.generator_learning_rate,
       s.optimiser, s.grad_weight, s.z_dim, s.batch_size >>

\* A WGANGP argument list: nC critic layers, generator layers with the given
\* upsample list, and the tested truthy/falsy settings.
WGANGPArgs(nC, ups, cmom, cdrop, gmom, gact) ==
    << <<28, 28, 1>>, ListOf(20, nC), ListOf(30, nC), ListOf(40, nC),
       cmom, "leaky_relu", cdrop, 80,
       <<7, 7, 64>>, ups, ListOf(110, Len(ups)), ListOf(120, Len(ups)),
       ListOf(130, Len(ups)), gmom, gact, 0, 170,
       "rmsprop", 10, 100, 64 >>

UpsampleLists == UNION { [1..n -> {1, 2}] : n \in 0..MaxLayers }

\* The configuration of the object whose training loop Spec follows.
TrainedArgs == WGANGPArgs(1, <<2, 1>>, 0, 0, 9, "leaky_relu")

\* ------------------------------------------------ single-batch training
\* train_critic: critic_model.train_on_batch([true_imgs, noise], [valid, fake, dummy])
\* with valid = +1, fake = -1, dummy = 0.
train_critic == [model |-> "critic_model", targets |-> <<1, -1, 0>>]

\* train_generator: model.train_on_batch(noise, valid) with valid = +1.
train_generator == [model |-> "model", targets |-> <<1>>]

NoBatch == [model |-> "", targets |-> <<>>]

\* ========================================================== WGANGP.train
\* Faulty variant: the test is made on the offset within the call.
CriticLoopsOffset(e, n) ==
    IF (e - start) % FirstEpochPeriod = 0 THEN FirstEpochCriticLoops ELSE n

\* critic_loops of epoch e of a call with n_critic = n.
CriticLoops(e, n) ==
    IF e % FirstEpochPeriod = 0 THEN FirstEpochCriticLoops ELSE n

CheckpointOps == <<"sample_images", "weights-%d.h5", "weights.h5", "save_model">>

\* train(x_train, batch_size, epochs, run_folder, print_every_n_batches, n_critic)
\* is called: range(self.epoch, self.epoch + epochs) is evaluated.
Train(epochs, p, n) ==
    /\ pc = "idle"
    /\ self_epoch + epochs <= MaxEpoch
    /\ pc' = "for"
    /\ start' = self_epoch
    /\ it' = self_epoch
    /\ stop' = self_epoch + epochs
    /\ n_critic' = n
    /\ print_every_n_batches' = p
    /\ d_loss' = "unbound"
    /\ raised' = ""
    /\ critic_loops' = 0
    /\ critics' = 0
    /\ gens' = 0
    /\ ckpt' = <<>>
    /\ sampleNo' = -1
    /\ weightsNo' = -1
    /\ UNCHANGED <<objVars, batch, self_epoch, epoch, gensSinceCritic>>

\* `for epoch in range(...)`: the next epoch begins and critic_loops is chosen,
\* or the range is exhausted and train returns.
LoopHead ==
    /\ pc = "for"
    /\ IF it < stop
       THEN /\ epoch' = it
            /\ it' = it + 1
            /\ critic_loops' = CriticLoops(it, n_critic)
            /\ critics' = 0
            /\ gens' = 0
            /\ ckpt' = <<>>
            /\ sampleNo' = -1
            /\ weightsNo' = -1
            /\ pc' = "critic"
       ELSE /\ pc' = "idle"
            /\ UNCHANGED <<epoch, it, critic_loops, critics, gens, ckpt, sampleNo, weightsNo>>
    /\ UNCHANGED <<objVars, batch, self_epoch, start, stop, n_critic,
                   print_every_n_batches, d_loss, raised, gensSinceCritic>>

\* One pass of `for _ in range(critic_loops): d_loss = self.train_critic(...)`.
TrainCriticStep ==
    /\ pc = "critic"
    /\ critics < critic_loops
    /\ critics' = critics + 1
    /\ d_loss' = "bound"
    /\ batch' = train_critic
    /\ gensSinceCritic' = 0
    /\ UNCHANGED <<objVars, self_epoch, pc, epoch, it, start, stop, n_critic,
                   print_every_n_batches, critic_loops, raised, gens, ckpt,
                   sampleNo, weightsNo>>

\* Faulty variant: the generator update does not wait for the critic loop.
TrainGeneratorStepEarly ==
    /\ pc = "critic"
    /\ gens' = gens + 1
    /\ batch' = train_generator
    /\ gensSinceCritic' = IF gensSinceCritic < 2 THEN gensSinceCritic + 1 ELSE 2
    /\ pc' = "log"
    /\ UNCHANGED <<objVars, self_epoch, epoch, it, start, stop, n_critic,
                   print_every_n_batches, critic_loops, d_loss, raised, critics,
                   ckpt, sampleNo, weightsNo>>

\* The critic loop is over: `g_loss = self.train_generator(batch_size)`.
TrainGeneratorStep ==
    /\ pc = "critic"
    /\ critics >= critic_loops
    /\ gens' = gens + 1
    /\ batch' = train_generator
    /\ gensSinceCritic' = IF gensSinceCritic < 2 THEN gensSinceCritic + 1 ELSE 2
    /\ pc' = "log"
    /\ UNCHANGED <<objVars, self_epoch, epoch, it, start, stop, n_critic,
                   print_every_n_batches, critic_loops, d_loss, raised, critics,
                   ckpt, sampleNo, weightsNo>>

\* The print of d_loss and g_loss (UnboundLocalError when no critic update has
\* bound d_loss in this call), the two appends, and the test
\* `epoch % print_every_n_batches == 0` (ZeroDivisionError when it is 0).
LogLosses ==
    /\ pc = "log"
    /\ IF d_loss = "unbound"
       THEN pc' = "idle" /\ raised' = "UnboundLocalError"
       ELSE IF print_every_n_batches = 0
       THEN pc' = "idle" /\ raised' = "ZeroDivisionError"
       ELSE /\ pc' = IF epoch % print_every_n_batches = 0 THEN "sample_images" ELSE "incr"
            /\ raised' = raised
    /\ UNCHANGED <<objVars, batch, self_epoch, epoch, it, start, stop, n_critic,
                   print_every_n_batches, critic_loops, d_loss, critics, gens,
                   gensSinceCritic, ckpt, sampleNo, weightsNo>>

\* self.sample_images(run_folder): writes images/sample_<self.epoch>.png.
SampleImages ==
    /\ pc = "sample_images"
    /\ ckpt' = Append(ckpt, "sample_images")
    /\ sampleNo' = self_epoch
    /\ pc' = "save_weights_epoch"
    /\ UNCHANGED <<objVars, batch, self_epoch, epoch, it, start, stop, n_critic,
                   print_every_n_batches, critic_loops, d_loss, raised, critics,
                   gens, gensSinceCritic, weightsNo>>

\* self.model.save_weights('weights/weights-%d.h5' % (epoch)).
SaveWeightsEpoch ==
    /\ pc = "save_weights_epoch"
    /\ ckpt' = Append(ckpt, "weights-%d.h5")
    /\ weightsNo' = epoch
    /\ pc' = "save_weights"
    /\ UNCHANGED <<objVars, batch, self_epoch, epoch, it, start, stop, n_critic,
                   print_every_n_batches, critic_loops, d_loss, raised, critics,
                   gens, gensSinceCritic, sampleNo>>

\* self.model.save_weights('weights/weights.h5').
SaveWeights ==
    /\ pc = "save_weights"
    /\ ckpt' = Append(ckpt, "weights.h5")
    /\ pc' = "save_model"
    /\ UNCHANGED <<objVars, batch, self_epoch, epoch, it, start, stop, n_critic,
                   print_every_n_batches, critic_loops, d_loss, raised, critics,
                   gens, gensSinceCritic, sampleNo, weightsNo>>

\* self.save_model(run_folder).
SaveModel ==
    /\ pc = "save_model"
    /\ ckpt' = Append(ckpt, "save_model")
    /\ pc' = "incr"
    /\ UNCHANGED <<objVars, batch, self_epoch, epoch, it, start, stop, n_critic,
                   print_every_n_batches, critic_loops, d_loss, raised, critics,
                   gens, gensSinceCritic, sampleNo, weightsNo>>

\* self.epoch += 1.
IncrementEpoch ==
    /\ pc = "incr"
    /\ self_epoch' = self_epoch + 1
    /\ pc' = "for"
    /\ UNCHANGED <<objVars, batch, epoch, it, start, stop, n_critic,
                   print_every_n_batches, critic_loops, d_loss, raised, critics,
                   gens, gensSinceCritic, ckpt, sampleNo, weightsNo>>

\* The train variables of an object on which train has not been called.
TrainInit ==
    /\ self_epoch = 0
    /\ pc = "idle"
    /\ epoch = 0
    /\ it = 0
    /\ start = 0
    /\ stop = 0
    /\ n_critic = 0
    /\ print_every_n_batches = 0
    /\ critic_loops = 0
    /\ d_loss = "unbound"
    /\ raised = ""
    /\ critics = 0
    /\ gens = 0
    /\ gensSinceCritic = 0
    /\ ckpt = <<>>
    /\ sampleNo = -1
    /\ weightsNo = -1

\* A constructed WGANGP object, before its first train call.
Init ==
    /\ cls = "WGANGP"
    /\ args = TrainedArgs
    /\ LET o == WGANGPConstruct(TrainedArgs)
       IN  /\ status = o.status
           /\ error = o.error
           /\ self = o.self
           /\ encoder = o.encoder
           /\ decoder = o.decoder
           /\ critic = o.critic
           /\ generator = o.generator
           /\ trainable = o.trainable
           /\ critic_model = o.critic_model
           /\ model = o.model
    /\ params_pkl = <<>>
    /\ reloaded = [status |-> "new"]
    /\ batch = NoBatch
    /\ TrainInit

Next ==
    \/ \E epochs \in 0..MaxEpochsArg, p \in 0..MaxPrintEvery, n \in 0..MaxNCritic :
          Train(epochs, p, n)
    \/ LoopHead
    \/ TrainCriticStep
    \/ TrainGeneratorStep
    \/ LogLosses
    \/ SampleImages
    \/ SaveWeightsEpoch
    \/ SaveWeights
    \/ SaveModel
    \/ IncrementEpoch

Spec == Init /\ [][Next]_vars

\* ============================================================ claims: train
AfterGenerator ==
    {"log", "sample_images", "save_weights_epoch", "save_weights", "save_model", "incr"}

\* C1: in a train call with n_critic >= 1, every epoch runs all of its critic
\* updates first and then exactly one generator update: a generator update has
\* happened only once the epoch's critic_loops (>= 1) critic updates are done,
\* there is never a second one in the epoch, there is one by the time the
\* epoch's losses are logged, and a critic update lies between it and the
\* generator update before it.
C1_CriticThenGenerator ==
    (pc # "idle" /\ n_critic >= 1) =>
        /\ gens <= 1
        /\ (gens = 1 => critics = critic_loops /\ critics >= 1 /\ gensSinceCritic = 1)
        /\ (pc \in AfterGenerator => gens = 1)
        /\ (pc = "critic" => gens = 0)

C1_Witness ==
    /\ pc = "incr"
    /\ n_critic >= 1
    /\ epoch > start
    /\ epoch % FirstEpochPeriod # 0
    /\ critics = n_critic
    /\ gens = 1

\* C8: the number of critic updates of epoch e is 5 when e % 100 = 0 and
\* n_critic otherwise, where e is the absolute epoch number: the loop variable
\* equals self.epoch and lies in [start, stop), never the offset in the call.
C8_CriticUpdatesPerEpoch ==
    (pc \notin {"idle", "for"}) =>
        LET expected == IF epoch % 100 = 0 THEN 5 ELSE n_critic
        IN  /\ epoch = self_epoch
            /\ start <= epoch /\ epoch < stop
            /\ critics <= expected
            /\ (pc \in AfterGenerator => critics = expected)

C8_Witness ==
    /\ pc = "log"
    /\ epoch = 100
    /\ start = 99
    /\ n_critic = 2
    /\ critics = 5

\* The checkpoint operations of an epoch run in the fixed order, only in an
\* epoch with epoch % print_every_n_batches = 0, only after the epoch's
\* generator update, and with the epoch number in both file names.
CheckpointSafety ==
    /\ \E k \in 0..Len(CheckpointOps) : ckpt = SubSeq(CheckpointOps, 1, k)
    /\ ckpt # <<>> =>
          /\ print_every_n_batches > 0
          /\ epoch % print_every_n_batches = 0
          /\ gens = 1
          /\ sampleNo = epoch
    /\ pc \notin {"idle", "for"} => epoch = self_epoch
    /\ Len(ckpt) >= 2 => weightsNo = sampleNo
    /\ Len(ckpt) < 2 => weightsNo = -1
    /\ ckpt = <<>> => sampleNo = -1
    /\ pc = "incr" =>
          ckpt = IF epoch % print_every_n_batches = 0 THEN CheckpointOps ELSE <<>>

\* C6: train checkpoints in every epoch e with e % print_every_n_batches = 0
\* and in no other: the four operations run in order after the generator
\* update and before the counter is incremented, with the same number in the
\* sample file name and the weights file name; so when a call is over, the
\* last epoch it began, if e % print_every_n_batches = 0, has checkpointed.
C6_CheckpointEveryPrintEpoch ==
    /\ CheckpointSafety
    /\ (pc = "idle" /\ it > start /\ print_every_n_batches > 0
            /\ epoch % print_every_n_batches = 0) =>
          /\ ckpt = CheckpointOps
          /\ sampleNo = epoch
          /\ weightsNo = epoch

\* ============================================================ Autoencoder
Autoencoder__init__attrs(a) ==
    [ name |-> "autoencoder",
      input_dim |-> a[1],
      encoder_conv_filters |-> a[2],
      encoder_conv_kernel_size |-> a[3],
      encoder_conv_strides |-> a[4],
      decoder_conv_t_filters |-> a[5],
      decoder_conv_t_kernel_size |-> a[6],
      decoder_conv_t_strides |-> a[7],
      z_dim |-> a[8],
      use_batch_norm |-> a[9],
      use_dropout |-> a[10] ]

\* The attributes that hold constructor parameters.
AutoencoderConfigAttrs ==
    { "input_dim", "encoder_conv_filters", "encoder_conv_kernel_size",
      "encoder_conv_strides", "decoder_conv_t_filters", "decoder_conv_t_kernel_size",
      "decoder_conv_t_strides", "z_dim", "use_batch_norm", "use_dropout" }

RECURSIVE EncoderLoop(_, _, _)
EncoderLoop(s, i, x) ==
    IF i >= s.n_layers_encoder THEN x
    ELSE EncoderLoop(s, i + 1,
            x \o <<Layer("Conv2D", i, s.encoder_conv_strides[i + 1], ""),
                   Layer("LeakyReLU", -1, 0, "")>>
              \o Opt(s.use_batch_norm, Layer("BatchNormalization", -1, 0, ""))
              \o Opt(s.use_dropout, Layer("Dropout", -1, 0, "")))

BuildEncoder(s) ==
    EncoderLoop(s, 0, <<Layer("Input", -1, 0, "")>>)
        \o <<Layer("Flatten", -1, 0, ""), Layer("Dense", -1, 0, "")>>

RECURSIVE DecoderLoop(_, _, _)
DecoderLoop(s, i, x) ==
    IF i >= s.n_layers_decoder THEN x
    ELSE DecoderLoop(s, i + 1,
            x \o <<Layer("Conv2DTranspose", i, s.decoder_conv_t_strides[i + 1], "")>>
              \o (IF i < s.n_layers_decoder - 1
                  THEN <<Layer("LeakyReLU", -1, 0, "")>>
                         \o Opt(s.use_batch_norm, Layer("BatchNormalization", -1, 0, ""))
                         \o Opt(s.use_dropout, Layer("Dropout", -1, 0, ""))
                  ELSE <<Layer("Activation", -1, 0, "sigmoid")>>))

BuildDecoder(s) ==
    DecoderLoop(s, 0, <<Layer("Input", -1, 0, ""), Layer("Dense", -1, 0, ""),
                        Layer("Reshape", -1, 0, "")>>)

\* No model: nothing has been built or compiled.
NoModel ==
    [ inputs |-> <<>>, outputs |-> <<>>, loss |-> <<>>, loss_weights |-> <<>>,
      learning_rate |-> 0, trainable |-> <<>> ]

\* Autoencoder.model = Model(encoder_input, self.decoder(encoder_output)), not yet compiled.
AutoencoderModel ==
    [ inputs |-> <<"encoder_input">>, outputs |-> <<"decoder(encoder_output)">>,
      loss |-> <<>>, loss_weights |-> <<>>, learning_rate |-> 0, trainable |-> <<>> ]

EncoderError == "Encoder filter sizes, kernel sizes, and strides must have the same length."
DecoderError == "Decoder filter sizes, kernel sizes, and strides must have the same length."

\* What __init__ leaves behind when it raises ValueError(msg): the attributes
\* assigned before the check, and nothing built.
AutoencoderRaised(s, msg) ==
    [ status |-> "raised", error |-> msg, self |-> s,
      encoder |-> <<>>, decoder |-> <<>>, critic |-> <<>>, generator |-> <<>>,
      trainable |-> <<>>, critic_model |-> NoModel, model |-> NoModel ]

\* Faulty variant: the decoder lists are checked before the encoder lists.
AutoencoderCheckDecoderFirst(a) ==
    IF NotSameLength(a[5], a[6], a[7]) THEN DecoderError
    ELSE IF NotSameLength(a[2], a[3], a[4]) THEN EncoderError
    ELSE ""

\* The two length checks of __init__: the message of the ValueError raised, "" if none.
AutoencoderCheck(a) ==
    IF NotSameLength(a[2], a[3], a[4]) THEN EncoderError
    ELSE IF NotSameLength(a[5], a[6], a[7]) THEN DecoderError
    ELSE ""

\* Autoencoder(*a): the constructed object, or what is left when __init__ raises.
AutoencoderConstruct(a) ==
    LET s0 == Autoencoder__init__attrs(a)
        msg == AutoencoderCheck(a)
    IN  IF msg # "" THEN AutoencoderRaised(s0, msg)
        ELSE LET s == s0 @@ [ n_layers_encoder |-> Len(a[2]),
                              n_layers_decoder |-> Len(a[5]) ]
             IN  [ status |-> "built", error |-> "", self |-> s,
                   encoder |-> BuildEncoder(s), decoder |-> BuildDecoder(s),
                   critic |-> <<>>, generator |-> <<>>, trainable |-> <<>>,
                   critic_model |-> NoModel, model |-> AutoencoderModel ]

\* The list Autoencoder.save pickles into params.pkl.
AutoencoderSaveList(s) ==
    << s.input_dim, s.encoder_conv_filters, s.encoder_conv_kernel_size,
       s.encoder_conv_strides, s.decoder_conv_t_filters, s.decoder_conv_t_kernel_size,
       s.decoder_conv_t_strides, s.z_dim, s.use_batch_norm, s.use_dropout >>

\* An Autoencoder argument list with the given lengths of the six layer lists.
AutoencoderArgs(n1, n2, n3, n4, n5, n6, bn, do) ==
    << <<28, 28, 1>>, ListOf(20, n1), ListOf(30, n2), ListOf(40, n3),
       ListOf(50, n4), ListOf(60, n5), ListOf(70, n6), 2, bn, do >>

\* ================================================= operations on an object
NotConstructed == [status |-> "new"]

Installed(o) ==
    /\ status' = o.status
    /\ error' = o.error
    /\ self' = o.self
    /\ encoder' = o.encoder
    /\ decoder' = o.decoder
    /\ critic' = o.critic
    /\ generator' = o.generator
    /\ trainable' = o.trainable
    /\ critic_model' = o.critic_model
    /\ model' = o.model

Autoencoder__init__ ==
    /\ cls = "Autoencoder"
    /\ status = "new"
    /\ Installed(AutoencoderConstruct(args))
    /\ UNCHANGED <<cls, args, params_pkl, reloaded, batch, trainVars>>

WGANGP__init__ ==
    /\ cls = "WGANGP"
    /\ status = "new"
    /\ Installed(WGANGPConstruct(args))
    /\ UNCHANGED <<cls, args, params_pkl, reloaded, batch, trainVars>>

\* Autoencoder.save(folder): params.pkl is written, then the models are plotted.
AutoencoderSave ==
    /\ cls = "Autoencoder"
    /\ status = "built"
    /\ params_pkl = <<>>
    /\ params_pkl' = AutoencoderSaveList(self)
    /\ UNCHANGED <<cls, args, status, error, self, encoder, decoder, critic, generator,
                   trainable, critic_model, model, reloaded, batch, trainVars>>

\* WGANGP.save(folder): params.pkl is written and closed, then self.plot_model
\* calls plot_model, a name WGANGP.py never imports: NameError.
WGANGPSave ==
    /\ cls = "WGANGP"
    /\ status = "built"
    /\ params_pkl = <<>>
    /\ params_pkl' = WGANGPSaveList(self)
    /\ error' = "NameError: name 'plot_model' is not defined"
    /\ UNCHANGED <<cls, args, status, self, encoder, decoder, critic, generator,
                   trainable, critic_model, model, reloaded, batch, trainVars>>

\* Autoencoder(*params) with the list read back from params.pkl.
AutoencoderReload ==
    /\ cls = "Autoencoder"
    /\ params_pkl # <<>>
    /\ reloaded.status = "new"
    /\ reloaded' = AutoencoderConstruct(params_pkl)
    /\ UNCHANGED <<cls, args, status, error, self, encoder, decoder, critic, generator,
                   trainable, critic_model, model, params_pkl, batch, trainVars>>

\* WGANGP(*params) with the list read back from params.pkl.
WGANGPReload ==
    /\ cls = "WGANGP"
    /\ params_pkl # <<>>
    /\ reloaded.status = "new"
    /\ reloaded' = WGANGPConstruct(params_pkl)
    /\ UNCHANGED <<cls, args, status, error, self, encoder, decoder, critic, generator,
                   trainable, critic_model, model, params_pkl, batch, trainVars>>

\* WGANGP.train_critic(x_train, batch_size, using_generator), one call.
TrainCriticCall ==
    /\ cls = "WGANGP"
    /\ status = "built"
    /\ batch' = train_critic
    /\ UNCHANGED <<objVars, trainVars>>

\* WGANGP.train_generator(batch_size), one call.
TrainGeneratorCall ==
    /\ cls = "WGANGP"
    /\ status = "built"
    /\ batch' = train_generator
    /\ UNCHANGED <<objVars, trainVars>>

InitModels ==
    /\ \/ /\ cls = "Autoencoder"
          /\ \E n1, n2, n3, n4, n5, n6 \in 0..MaxLayers, bn, do \in BOOLEAN :
                args = AutoencoderArgs(n1, n2, n3, n4, n5, n6, bn, do)
       \/ /\ cls = "WGANGP"
          /\ \E nC \in 0..MaxLayers, ups \in UpsampleLists,
                cmom, cdrop, gmom \in {0, 9}, gact \in {"relu", "leaky_relu"} :
                args = WGANGPArgs(nC, ups, cmom, cdrop, gmom, gact)
    /\ status = "new"
    /\ error = ""
    /\ self = <<>>
    /\ encoder = <<>>
    /\ decoder = <<>>
    /\ critic = <<>>
    /\ generator = <<>>
    /\ trainable = <<>>
    /\ critic_model = NoModel
    /\ model = NoModel
    /\ params_pkl = <<>>
    /\ reloaded = NotConstructed
    /\ batch = NoBatch
    /\ TrainInit

NextModels ==
    \/ Autoencoder__init__
    \/ WGANGP__init__
    \/ AutoencoderSave
    \/ WGANGPSave
    \/ AutoencoderReload
    \/ WGANGPReload
    \/ TrainCriticCall
    \/ TrainGeneratorCall

SpecModels == InitModels /\ [][NextModels]_vars

\* =========================================================== claims: models
IsWGANGP == cls = "WGANGP" /\ status = "built"
IsAutoencoder == cls = "Autoencoder" /\ status = "built"

\* C2: the critic training model has the three outputs (real, generated,
\* interpolated) in that order, paired position by position with the losses
\* (wasserstein, wasserstein, gradient_penalty), the weights (1, 1, grad_weight)
\* and train_critic's targets (+1, -1, 0); the generator model has the
\* wasserstein loss alone and train_generator's target is +1.
C2_CriticLossPairing ==
    IsWGANGP =>
        /\ critic_model.outputs =
              <<"critic(real_img)", "critic(fake_img)", "critic(interpolated_img)">>
        /\ Len(critic_model.loss) = 3 /\ Len(critic_model.loss_weights) = 3
        /\ batch.model = "critic_model" =>
              /\ Len(batch.targets) = 3
              /\ { <<critic_model.outputs[k], critic_model.loss[k],
                     critic_model.loss_weights[k], batch.targets[k]>> : k \in 1..3 }
                 = { <<"critic(real_img)", "wasserstein", 1, 1>>,
                     <<"critic(fake_img)", "wasserstein", 1, -1>>,
                     <<"critic(interpolated_img)", "gradient_penalty",
                       self.grad_weight, 0>> }
        /\ model.outputs = <<"critic(generator(model_input))">>
        /\ model.loss = <<"wasserstein">>
        /\ batch.model = "model" => batch.targets = <<1>>

C2_Witness ==
    /\ IsWGANGP
    /\ batch.model = "critic_model"
    /\ critic_model.loss_weights[3] = 10
    /\ batch.targets[2] = -1

\* Position of the layer named with index i.
LayerPos(layers, i) == CHOOSE p \in 1..Len(layers) : layers[p].i = i

IsLayer(layers, p, op) == p \in 1..Len(layers) /\ layers[p].op = op

\* Every transposed convolution of the decoder is followed by what its
\* position asks for: the last by sigmoid, ending the decoder; an earlier one
\* by LeakyReLU, then batch normalisation if use_batch_norm, then dropout if
\* use_dropout, then the next transposed convolution.
DecoderLayersAsConfigured ==
    LET d == decoder
        n == Len(self.decoder_conv_t_filters)
    IN  /\ Len(d) >= 3
        /\ d[2].op = "Dense"
        /\ d[3].op = "Reshape"
        /\ n > 0 => d[4] = Layer("Conv2DTranspose", 0, self.decoder_conv_t_strides[1], "")
        /\ Cardinality({p \in 1..Len(d) : d[p].op = "Conv2DTranspose"}) = n
        /\ \A i \in 0..(n - 1) :
              LET p == LayerPos(d, i)
                  b == IF self.use_batch_norm THEN 1 ELSE 0
                  o == IF self.use_dropout THEN 1 ELSE 0
              IN  /\ d[p] = Layer("Conv2DTranspose", i, self.decoder_conv_t_strides[i + 1], "")
                  /\ IF i = n - 1
                     THEN /\ Len(d) = p + 1
                          /\ d[p + 1] = Layer("Activation", -1, 0, "sigmoid")
                     ELSE /\ IsLayer(d, p + 1, "LeakyReLU")
                          /\ self.use_batch_norm => IsLayer(d, p + 2, "BatchNormalization")
                          /\ self.use_dropout => IsLayer(d, p + 2 + b, "Dropout")
                          /\ IsLayer(d, p + 2 + b + o, "Conv2DTranspose")

\* C3: for every configuration the constructor accepts, the decoder is
\* dense -> reshape -> transposed convolutions, its final operation is a
\* sigmoid activation, and each transposed convolution is followed as
\* DecoderLayersAsConfigured says.
C3_DecoderEndsWithSigmoid ==
    IsAutoencoder =>
        /\ DecoderLayersAsConfigured
        /\ decoder[Len(decoder)] = Layer("Activation", -1, 0, "sigmoid")

\* Every generator layer i is UpSampling2D then a stride-1 Conv2D when
\* generator_upsample[i] = 2 and a Conv2DTranspose with generator_conv_strides[i]
\* otherwise; the last is followed by tanh, ending the generator; an earlier one
\* by batch normalisation (when the momentum is set), then the configured
\* activation, then the next layer.
GeneratorLayersAsConfigured ==
    LET g == generator
        n == Len(self.generator_conv_filters)
        b == IF self.generator_batch_norm_momentum # 0 THEN 1 ELSE 0
    IN  /\ Cardinality({p \in 1..Len(g) : g[p].i >= 0}) = n
        /\ \A i \in 0..(n - 1) :
              LET p == LayerPos(g, i)
              IN  /\ IF self.generator_upsample[i + 1] = 2
                     THEN /\ g[p] = Layer("Conv2D", i, 1, "")
                          /\ IsLayer(g, p - 1, "UpSampling2D")
                     ELSE /\ g[p] = Layer("Conv2DTranspose", i,
                                          self.generator_conv_strides[i + 1], "")
                          /\ ~IsLayer(g, p - 1, "UpSampling2D")
                  /\ IF i = n - 1
                     THEN /\ Len(g) = p + 1
                          /\ g[p + 1] = Layer("Activation", -1, 0, "tanh")
                     ELSE /\ b = 1 => IsLayer(g, p + 1, "BatchNormalization")
                          /\ g[p + 1 + b] = get_activation(self.generator_activation)
                          /\ g[p + 2 + b].op \in {"UpSampling2D", "Conv2DTranspose"}

\* C4: for every WGANGP configuration the generator's final operation is a
\* tanh activation, and its layers are as GeneratorLayersAsConfigured says.
C4_GeneratorEndsWithTanh ==
    IsWGANGP =>
        /\ GeneratorLayersAsConfigured
        /\ generator[Len(generator)] = Layer("Activation", -1, 0, "tanh")

\* C5: params.pkl holds every constructor parameter once, in the constructor's
\* positional order (10 values for Autoencoder, 21 for WGANGP), and the object
\* constructed from it positionally is built with configuration attributes
\* equal to those of the saved object.
C5_ParamsRoundTrip ==
    LET attrs == IF cls = "Autoencoder" THEN AutoencoderConfigAttrs ELSE WGANGPConfigAttrs
    IN  /\ params_pkl # <<>> =>
              /\ Len(params_pkl) = IF cls = "Autoencoder" THEN 10 ELSE 21
              /\ params_pkl = args
        /\ reloaded.status # "new" =>
              /\ reloaded.status = "built"
              /\ \A a \in attrs : reloaded.self[a] = self[a]

C5_Witness ==
    /\ cls = "WGANGP"
    /\ reloaded.status = "built"
    /\ Len(params_pkl) = 21
    /\ Len(reloaded.self.generator_conv_filters) = 2
    /\ reloaded.self.grad_weight # reloaded.self.z_dim

\* C7: the constructor raises ValueError exactly when the three encoder lists
\* or the three decoder lists differ in length, with the encoder message when
\* the encoder lists differ, and then nothing has been built.
C7_LengthValidation ==
    (cls = "Autoencoder" /\ status # "new") =>
        LET encBad == ~(Len(args[2]) = Len(args[3]) /\ Len(args[3]) = Len(args[4]))
            decBad == ~(Len(args[5]) = Len(args[6]) /\ Len(args[6]) = Len(args[7]))
        IN  /\ status = "raised" <=> (encBad \/ decBad)
            /\ encBad => error = EncoderError
            /\ (decBad /\ ~encBad) => error = DecoderError
            /\ status = "built" => error = ""
            /\ status = "raised" =>
                  /\ encoder = <<>> /\ decoder = <<>> /\ model = NoModel
                  /\ "n_layers_encoder" \notin DOMAIN self

C7_Witness ==
    /\ cls = "Autoencoder"
    /\ status = "raised"
    /\ error = EncoderError
    /\ Len(args[5]) # Len(args[7])
    /\ Len(args[2]) # Len(args[3])

AllFlags(f, val, layers) ==
    /\ f.m = val
    /\ DOMAIN f.layers = DOMAIN layers
    /\ \A j \in DOMAIN f.layers : f.layers[j] = val

\* C9: the critic training model is compiled with the generator and all its
\* layers non-trainable and the critic and all its layers trainable; the
\* generator training model with the critic and all its layers non-trainable
\* and the generator and all its layers trainable; and on return critic,
\* generator and all their layers are trainable.
C9_TrainableProtocol ==
    IsWGANGP =>
        /\ AllFlags(critic_model.trainable.generator, FALSE, generator)
        /\ AllFlags(critic_model.trainable.critic, TRUE, critic)
        /\ AllFlags(model.trainable.critic, FALSE, critic)
        /\ AllFlags(model.trainable.generator, TRUE, generator)
        /\ AllFlags(trainable.critic, TRUE, critic)
        /\ AllFlags(trainable.generator, TRUE, generator)

C9_Witness ==
    /\ IsWGANGP
    /\ Len(generator) > 6
    /\ Len(critic) > 6
    /\ critic_model.trainable.generator.layers[Len(generator)] = FALSE
    /\ model.trainable.critic.layers[Len(critic)] = FALSE
    /\ trainable.critic.layers[Len(critic)] = TRUE
====
